---- MODULE Spec2Model ----
(***************************************************************************)
(* A model of the raster alignment and tiling core of geoProc:            *)
(*   - TileLocator (surfaceMapping/util.py): tile labels from extents;    *)
(*   - XRio (xext/xrio.py): open / load / merge / concat / mergable;      *)
(*   - GDALGrid (xext/grid.py): pixel <-> coordinate mapping;             *)
(*   - LakeMaskProcessor (surfaceMapping/processing.py): the lake batch.  *)
(* Each component has its own specification over its own variables; the   *)
(* variables of the other components stay at their idle value.            *)
(*                                                                         *)
(* Numbers.  Degrees are modelled in tenths of a degree (49.9 is 499), so *)
(* that floor(v / 10.0) is v \div 100.  World coordinates are exact       *)
(* rationals; floating point rounding is not modelled.                     *)
(***************************************************************************)
EXTENDS Integers, Sequences, FiniteSets, TLC

VARIABLES
    tcall,      \* TileLocator: the last call, [op, args...]
    tret,       \* TileLocator: what that call returned
    fs,         \* XRio: the file system, path -> file state
    lcall,      \* XRio: the last call
    lret,       \* XRio: what that call returned (or raised)
    grid,       \* GDALGrid: the wrapped dataset (affine + raster size)
    gcall,      \* GDALGrid: the last call
    gret,       \* GDALGrid: what that call returned (or raised)
    lakes,      \* LakeMaskProcessor: the batch's inputs and lake_masks
    unit,       \* LakeMaskProcessor: per lake, the state of its work unit
    reports,    \* LakeMaskProcessor: the task reports written so far
    batch,      \* LakeMaskProcessor: the state of process_lakes itself
    dl,         \* MWPDataManager: the state of download_tiles and its inputs
    worker,     \* MWPDataManager: the units the busy pool processes are running
    tilefiles,  \* MWPDataManager: the tile files that exist under data_dir
    wrote,      \* both pools: which unit opened which path for writing
    raster,     \* raster datasets: the source and the reference dataset
    rcall,      \* raster datasets: the last call
    rret        \* raster datasets: what that call returned (or raised)

vars == <<tcall, tret, fs, lcall, lret, grid, gcall, gret, lakes, unit, reports, batch,
          dl, worker, tilefiles, wrote, raster, rcall, rret>>

tileVars == <<tcall, tret>>
loadVars == <<fs, lcall, lret>>
gridVars == <<grid, gcall, gret>>
lakeVars == <<lakes, unit, reports, batch>>
mwpVars == <<dl, worker, tilefiles>>
rasterVars == <<raster, rcall, rret>>

Idle == [op |-> "idle"]

Abs(n) == IF n < 0 THEN -n ELSE n

\* math.floor(v / q) and math.ceil(v / q) for an integer v and q > 0
Floor(v, q) == v \div q
Ceil(v, q) == -((-v) \div q)

(***************************************************************************)
(*                              TileLocator                                *)
(***************************************************************************)

\* one character per decimal digit
DigitChars == <<"0", "1", "2", "3", "4", "5", "6", "7", "8", "9">>

RECURSIVE DecDigits(_)
\* str(n) for n >= 0, as a sequence of characters
DecDigits(n) ==
    IF n < 10 THEN <<DigitChars[n + 1]>>
    ELSE DecDigits(n \div 10) \o <<DigitChars[(n % 10) + 1]>>

RECURSIVE ZeroPad(_, _)
ZeroPad(s, width) == IF Len(s) >= width THEN s ELSE ZeroPad(<<"0">> \o s, width)

\* the bug of not padding the number
Fmt03d_unpadded(n) == DecDigits(n)

\* f"{n:03d}" for n >= 0: at least three digits, zero padded
Fmt03d(n) == ZeroPad(DecDigits(n), 3)

\* the bug of taking the magnitude before rounding
floor10_absInside(fval) == Floor(Abs(fval), 100) * 10

\* util.py floor10: abs( int(floor(fval / 10.0)) * 10 ), fval in tenths
floor10(fval) == Abs(Floor(fval, 100) * 10)

ceil10_absInside(fval) == Ceil(Abs(fval), 100) * 10

\* util.py ceil10: abs( int(ceil(fval / 10.0)) * 10 )
ceil10(fval) == Abs(Ceil(fval, 100) * 10)

unwrap_inclusive(coord) == IF coord <= 1800 THEN coord ELSE coord - 3600

\* util.py unwrap: coord if coord < 180 else coord - 360
unwrap(coord) == IF coord < 1800 THEN coord ELSE coord - 3600

lon_label_signOfInput(lon) ==
    LET ulon == unwrap(lon)
    IN  IF lon < 0 THEN Fmt03d(floor10(ulon)) \o <<"W">>
        ELSE Fmt03d(floor10(ulon)) \o <<"E">>

\* util.py lon_label
lon_label(lon) ==
    LET ulon == unwrap(lon)
    IN  IF ulon < 0 THEN Fmt03d(floor10(ulon)) \o <<"W">>
        ELSE Fmt03d(floor10(ulon)) \o <<"E">>

lat_label_zeroNorth(lat) ==
    IF lat >= 0 THEN Fmt03d(ceil10(lat)) \o <<"N">>
    ELSE Fmt03d(ceil10(lat)) \o <<"S">>

\* util.py lat_label
lat_label(lat) ==
    IF lat > 0 THEN Fmt03d(ceil10(lat)) \o <<"N">>
    ELSE Fmt03d(ceil10(lat)) \o <<"S">>

\* the orders in which a Python set may be iterated
Orderings(S) ==
    {q \in [1..Cardinality(S) -> S] : \A i, j \in DOMAIN q : q[i] = q[j] => i = j}

\* [ f"{xval}{yval}" for xval in xq for yval in yq ]
Comprehension(xq, yq) ==
    [k \in 1..(Len(xq) * Len(yq)) |->
        xq[((k - 1) \div Len(yq)) + 1] \o yq[((k - 1) % Len(yq)) + 1]]

get_tiles_noDedup(xmin, xmax, ymin, ymax) ==
    {Comprehension(<<lon_label(xmin), lon_label(xmax)>>,
                   <<lat_label(ymin), lat_label(ymax)>>)}

\* util.py get_tiles: the lists it may return (set iteration order is free)
get_tiles(xmin, xmax, ymin, ymax) ==
    LET xvals == {lon_label(xmin), lon_label(xmax)}
        yvals == {lat_label(ymin), lat_label(ymax)}
    IN  {Comprehension(xq, yq) : xq \in Orderings(xvals), yq \in Orderings(yvals)}

\* longitudes of [-180, 360) and latitudes of [-90, 90], in tenths of a degree
Lons == -1800..3599
Lats == -900..900

\* the box corners tried with get_tiles
BoxLons == {-1800, -1250, -1201, -1200, -1180, -1, 0, 99, 1799, 1800, 2350, 3599}
BoxLats == {-900, -100, -51, -1, 0, 1, 450, 500, 520, 900}

\* every call of the TileLocator that is tried
TileCalls ==
    {[op |-> "lon_label", a |-> <<lon>>] : lon \in Lons}
    \cup {[op |-> "lat_label", a |-> <<lat>>] : lat \in Lats}
    \cup {[op |-> "get_tiles", a |-> <<xmin, xmax, ymin, ymax>>] :
            xmin \in BoxLons, xmax \in BoxLons, ymin \in BoxLats, ymax \in BoxLats}

\* a call that has not returned yet, and one that returned v
Pending == [done |-> FALSE, v |-> <<>>]
Returned(v) == [done |-> TRUE, v |-> v]

LonLabel ==
    /\ tcall.op = "lon_label" /\ ~tret.done
    /\ tret' = Returned(lon_label(tcall.a[1]))
    /\ UNCHANGED <<tcall, loadVars, gridVars, lakeVars, mwpVars, wrote, rasterVars>>

LatLabel ==
    /\ tcall.op = "lat_label" /\ ~tret.done
    /\ tret' = Returned(lat_label(tcall.a[1]))
    /\ UNCHANGED <<tcall, loadVars, gridVars, lakeVars, mwpVars, wrote, rasterVars>>

GetTiles ==
    /\ tcall.op = "get_tiles" /\ ~tret.done
    /\ \E results \in get_tiles(tcall.a[1], tcall.a[2], tcall.a[3], tcall.a[4]) :
          tret' = Returned(results)
    /\ UNCHANGED <<tcall, loadVars, gridVars, lakeVars, mwpVars, wrote, rasterVars>>

(***************************************************************************)
(*                                 XRio                                    *)
(***************************************************************************)

\* the most files one call is given
MaxFiles == 3

Paths == 1..MaxFiles

\* (height, width) of the array XRio.open returns for a raster file
Shapes == {<<1, 2>>, <<2, 1>>}

NoShape == <<0, 0>>

\* a path names no file, a file rioxarray cannot read, or a raster
FileStates ==
    {[kind |-> "missing", shape |-> NoShape], [kind |-> "corrupt", shape |-> NoShape]}
    \cup {[kind |-> "raster", shape |-> s] : s \in Shapes}

Missing == [kind |-> "missing", shape |-> NoShape]

\* the kinds of the mask keyword: None, a list, a GeoDataFrame, anything else
MaskKinds == {"none", "list", "gdf", "other"}

\* an xr.DataArray: the file it was read from, its shape (band, y, x) from the
\* (height, width) of the file, read as one band, and whether it carries x/y
\* index coordinates (parse_coordinates)
Array(src, shape, indexed) == [src |-> src, shape |-> <<1>> \o shape, indexed |-> indexed]

\* the band counts of the arrays handed to mergable
BandCounts == {1, 2}

\* the same arrays read from files of the given numbers of bands
WithBands(arrays, bands) == [i \in DOMAIN arrays |-> [arrays[i] EXCEPT !.shape[1] = bands[i]]]

NoArray == Array(0, NoShape, FALSE)

\* what a call gives back: None, a stack along the time axis, or an error
RetNone == [kind |-> "none", entries |-> <<>>, time |-> <<>>, padded |-> FALSE, err |-> ""]
RetStack(entries, time, padded) ==
    [kind |-> "stack", entries |-> entries, time |-> time, padded |-> padded, err |-> ""]
RetRaise(err) ==
    [kind |-> "raise", entries |-> <<>>, time |-> <<>>, padded |-> FALSE, err |-> err]
RetBool(b) ==
    [kind |-> "bool", entries |-> <<>>, time |-> <<>>, padded |-> b, err |-> ""]

SameShapes(arrays) == \A i, j \in DOMAIN arrays : arrays[i].shape = arrays[j].shape

\* xarray's concat of arrays along the time axis: arrays whose x/y sizes differ
\* are outer-joined (and padded) when all carry x/y indexes, and refused otherwise
XrConcat(arrays, time) ==
    IF arrays = <<>> THEN RetRaise("ValueError")
    ELSE IF SameShapes(arrays) THEN RetStack(arrays, time, FALSE)
    ELSE IF \A i \in DOMAIN arrays : arrays[i].indexed THEN RetStack(arrays, time, TRUE)
    ELSE RetRaise("ValueError")

\* xrio.py XRio.open: the array read from the file, or None after any error in
\* reading, subsetting or clipping; with kill_zombies the handler removes the
\* file, and os.remove raises when there is no such file
open(fsys, filename, mask, kill_zombies, indexed, clipMiss) ==
    LET f == fsys[filename]
        stepOk == /\ f.kind = "raster"
                  /\ mask \in {"none", "list", "gdf"}
                  /\ mask = "gdf" => filename \notin clipMiss
    IN  IF stepOk
        THEN [kind |-> "array", arr |-> Array(filename, f.shape, indexed), fs |-> fsys, err |-> ""]
        ELSE IF ~kill_zombies
        THEN [kind |-> "none", arr |-> NoArray, fs |-> fsys, err |-> ""]
        ELSE IF f.kind = "missing"
        THEN [kind |-> "raise", arr |-> NoArray, fs |-> fsys, err |-> "FileNotFoundError"]
        ELSE [kind |-> "none", arr |-> NoArray,
              fs |-> [fsys EXCEPT ![filename] = Missing], err |-> ""]

\* xrio.py XRio.concat: xr.concat along the existing time axis
concat(stack, data_array) ==
    LET r == XrConcat(stack.entries \o data_array.entries, <<>>)
    IN  IF r.kind = "stack" THEN RetStack(r.entries, <<>>, r.padded \/ stack.padded) ELSE r

\* data_array.expand_dims("time", 0): a stack of one entry, no time coordinate
expand_dims(arr) == RetStack(<<arr>>, <<>>, FALSE)

RECURSIVE LoadFrom(_, _, _, _, _)
\* the loop of XRio.load from file iF on, with the result so far
LoadFrom(iF, result, fsys, filePaths, kw) ==
    IF iF > Len(filePaths) THEN [ret |-> result, fs |-> fsys]
    ELSE
        LET o == open(fsys, filePaths[iF], kw.mask, kw.kill_zombies, kw.indexed, kw.clipMiss)
        IN  IF o.kind = "raise" THEN [ret |-> RetRaise(o.err), fs |-> o.fs]
            ELSE IF o.kind = "none" THEN LoadFrom(iF + 1, result, o.fs, filePaths, kw)
            ELSE
                LET r == IF result.kind = "none" THEN expand_dims(o.arr)
                         ELSE concat(result, expand_dims(o.arr))
                IN  IF r.kind = "raise" THEN [ret |-> r, fs |-> o.fs]
                    ELSE LoadFrom(iF + 1, r, o.fs, filePaths, kw)

\* xrio.py XRio.load
load(fsys, filePaths, kw) == LoadFrom(1, RetNone, fsys, filePaths, kw)

\* what load1 gives back for a single file that opens: the array as opened
RetArray(arr) ==
    [kind |-> "array", entries |-> <<arr>>, time |-> <<>>, padded |-> FALSE, err |-> ""]

\* the optional index keyword of merge
NoIndex == [given |-> FALSE, v |-> <<>>]
SomeIndex(v) == [given |-> TRUE, v |-> v]

RECURSIVE Extract(_, _)
\* np.extract(index_mask, index) for sequences of one length
Extract(index_mask, index) ==
    IF index = <<>> THEN <<>>
    ELSE (IF Head(index_mask) THEN <<Head(index)>> ELSE <<>>)
         \o Extract(Tail(index_mask), Tail(index))

\* range( len(data_arrays) )
Range(n) == [i \in 1..n |-> i - 1]

\* xrio.py XRio.merge: no check of the shapes; xr.concat along a new axis whose
\* coordinate must have one value per array
merge(data_arrays, index, index_mask) ==
    LET new_axis_values ==
            IF ~index.given THEN Range(Len(data_arrays))
            ELSE IF ~index_mask.given THEN index.v
            ELSE Extract(index_mask.v, index.v)
    IN  IF Len(new_axis_values) # Len(data_arrays) THEN RetRaise("ValueError")
        ELSE XrConcat(data_arrays, new_axis_values)

\* the bug of looking at the last array only
mergable_lastOnly(arrays) ==
    arrays = <<>> \/ arrays[Len(arrays)].shape = arrays[1].shape

RECURSIVE MergableFrom(_, _)
\* the loop of XRio.mergable from array i on
MergableFrom(i, arrays) ==
    IF i > Len(arrays) THEN TRUE
    ELSE IF arrays[i].shape # arrays[1].shape THEN FALSE
    ELSE MergableFrom(i + 1, arrays)

\* xrio.py XRio.mergable
mergable(arrays) == MergableFrom(1, arrays)

RECURSIVE Load1From(_, _, _, _, _, _)
\* the loop of XRio.load1 from file iF on, lines 81-86, then lines 87-91
Load1From(iF, array_list, index_mask, fsys, filePaths, kw) ==
    IF iF > Len(filePaths)
    THEN [ret |-> IF Len(array_list) > 1
                  THEN IF ~mergable(array_list) THEN RetRaise("AssertionError")
                       ELSE merge(array_list, kw.index, SomeIndex(index_mask))
                  ELSE IF array_list = <<>> THEN RetRaise("IndexError")
                  ELSE RetArray(array_list[1]),
          fs |-> fsys]
    ELSE
        LET o == open(fsys, filePaths[iF], kw.mask, kw.kill_zombies, kw.indexed, kw.clipMiss)
        IN  IF o.kind = "raise" THEN [ret |-> RetRaise(o.err), fs |-> o.fs]
            ELSE IF o.kind = "none"
            THEN Load1From(iF + 1, array_list, [index_mask EXCEPT ![iF] = FALSE], o.fs, filePaths, kw)
            ELSE Load1From(iF + 1, Append(array_list, o.arr), index_mask, o.fs, filePaths, kw)

\* xrio.py XRio.load1
load1(fsys, filePaths, kw) ==
    Load1From(1, <<>>, [i \in 1..Len(filePaths) |-> TRUE], fsys, filePaths, kw)

\* the arrays XRio.open gives for the rasters among the given paths, in order
RECURSIVE OpenedArrays(_, _, _)
OpenedArrays(fsys, filePaths, indexed) ==
    IF filePaths = <<>> THEN <<>>
    ELSE (IF fsys[Head(filePaths)].kind = "raster"
          THEN <<Array(Head(filePaths), fsys[Head(filePaths)].shape, indexed)>>
          ELSE <<>>) \o OpenedArrays(fsys, Tail(filePaths), indexed)

\* the lists of distinct paths a call may be given
PathLists ==
    UNION {{q \in [1..n -> Paths] : \A i, j \in 1..n : q[i] = q[j] => i = j} : n \in 0..MaxFiles}

\* the values of an index keyword of length k: 10, 20, ...
IndexValues(k) == [i \in 1..k |-> 10 * i]

\* the keywords of a load: mask, kill_zombies, parse_coordinates, (for a
\* GeoDataFrame mask) the files whose raster the geometry misses, where clip
\* raises, and (without a mask) an index for the time axis, one value per path
LoadKws(filePaths) ==
    {[mask |-> m, kill_zombies |-> k, indexed |-> x, clipMiss |-> c, index |-> NoIndex] :
        m \in MaskKinds \ {"gdf"}, k \in BOOLEAN, x \in BOOLEAN, c \in {{}}}
    \cup {[mask |-> m, kill_zombies |-> k, indexed |-> x, clipMiss |-> c, index |-> NoIndex] :
        m \in {"gdf"}, k \in BOOLEAN, x \in BOOLEAN,
        c \in SUBSET {filePaths[i] : i \in DOMAIN filePaths}}
    \cup {[mask |-> "none", kill_zombies |-> k, indexed |-> x, clipMiss |-> {},
           index |-> SomeIndex(IndexValues(Len(filePaths)))] :
        k \in BOOLEAN, x \in BOOLEAN}

\* the keywords tried with load1: no mask, with and without an index
Load1Kws(filePaths) == {kw \in LoadKws(filePaths) : kw.mask = "none"}

\* the index keywords tried with merge: none, or the values 10, 20, ... with or
\* without an index_mask of the same length
MergeIndexes ==
    {<<NoIndex, NoIndex>>}
    \cup {<<SomeIndex(IndexValues(k)), NoIndex>> : k \in 0..MaxFiles}
    \cup UNION {{<<SomeIndex(IndexValues(k)), SomeIndex(m)>> : m \in [1..k -> BOOLEAN]} :
                  k \in 0..MaxFiles}

\* XRio.open called on one file: the array, None, or the error of os.remove
Open ==
    /\ lcall.op = "idle"
    /\ \E filename \in Paths :
       \E kw \in LoadKws(<<filename>>) :
          LET o == open(fs, filename, kw.mask, kw.kill_zombies, kw.indexed, kw.clipMiss)
          IN  /\ lcall' = [op |-> "open", filePaths |-> <<filename>>, kw |-> kw, fs0 |-> fs,
                           data_arrays |-> <<>>]
              /\ lret' = IF o.kind = "array" THEN RetArray(o.arr)
                         ELSE IF o.kind = "raise" THEN RetRaise(o.err)
                         ELSE RetNone
              /\ fs' = o.fs
    /\ UNCHANGED <<tileVars, gridVars, lakeVars, mwpVars, wrote, rasterVars>>

Load ==
    /\ lcall.op = "idle"
    /\ \E filePaths \in PathLists :
       \E kw \in LoadKws(filePaths) :
          LET r == load(fs, filePaths, kw)
          IN  /\ lcall' = [op |-> "load", filePaths |-> filePaths, kw |-> kw, fs0 |-> fs,
                           data_arrays |-> <<>>]
              /\ lret' = r.ret
              /\ fs' = r.fs
    /\ UNCHANGED <<tileVars, gridVars, lakeVars, mwpVars, wrote, rasterVars>>

Load1 ==
    /\ lcall.op = "idle"
    /\ \E filePaths \in PathLists :
       \E kw \in Load1Kws(filePaths) :
          LET r == load1(fs, filePaths, kw)
          IN  /\ lcall' = [op |-> "load1", filePaths |-> filePaths, kw |-> kw, fs0 |-> fs,
                           data_arrays |-> <<>>]
              /\ lret' = r.ret
              /\ fs' = r.fs
    /\ UNCHANGED <<tileVars, gridVars, lakeVars, mwpVars, wrote, rasterVars>>

Merge ==
    /\ lcall.op = "idle"
    /\ \E filePaths \in PathLists, indexed \in BOOLEAN, ix \in MergeIndexes :
          LET data_arrays == OpenedArrays(fs, filePaths, indexed)
          IN  /\ lcall' = [op |-> "merge", filePaths |-> filePaths,
                           kw |-> [index |-> ix[1], index_mask |-> ix[2]], fs0 |-> fs,
                           data_arrays |-> data_arrays]
              /\ lret' = merge(data_arrays, ix[1], ix[2])
              /\ UNCHANGED fs
    /\ UNCHANGED <<tileVars, gridVars, lakeVars, mwpVars, wrote, rasterVars>>

Mergable ==
    /\ lcall.op = "idle"
    /\ \E filePaths \in PathLists :
       \E bands \in [1..Len(OpenedArrays(fs, filePaths, TRUE)) -> BandCounts] :
          LET arrays == WithBands(OpenedArrays(fs, filePaths, TRUE), bands)
          IN  /\ lcall' = [op |-> "mergable", filePaths |-> filePaths, kw |-> <<>>, fs0 |-> fs,
                           data_arrays |-> arrays]
              /\ lret' = RetBool(mergable(arrays))
              /\ UNCHANGED fs
    /\ UNCHANGED <<tileVars, gridVars, lakeVars, mwpVars, wrote, rasterVars>>

\* the caller takes the result; the next call starts from the files as they are
LoadReturn ==
    /\ lcall.op # "idle"
    /\ lcall' = Idle
    /\ lret' = RetNone
    /\ UNCHANGED <<fs, tileVars, gridVars, lakeVars, mwpVars, wrote, rasterVars>>

(***************************************************************************)
(*                               GDALGrid                                  *)
(***************************************************************************)

\* the largest raster width and height
MaxSize == 2

\* the largest magnitude of a doubled world coordinate handed to coord2pixel
MaxCoord == 4

\* the datasets wrapped: Affine(a, b, c, d, e, f) maps (col, row) to
\* (a*col + b*row + c, d*col + e*row + f); a and e are the pixel width and
\* height, b and d the rotation terms, (c, f) the origin
Grids ==
    {[a |-> a, b |-> b, c |-> o[1], d |-> d, e |-> e, f |-> o[2], x_size |-> w, y_size |-> h] :
        a \in {-1, 1, 2}, e \in {-2, -1, 1}, b \in {-1, 0, 1}, d \in {-1, 0, 1},
        o \in {<<0, 0>>, <<1, -1>>}, w \in 1..MaxSize, h \in 1..MaxSize}

\* what a GDALGrid call gives back; world coordinates are kept doubled, so that
\* the centre of a pixel is an integer pair
GNone == [kind |-> "none", v |-> <<0, 0>>, err |-> ""]
GCoord(x2, y2) == [kind |-> "coord", v |-> <<x2, y2>>, err |-> ""]
GPixel(col, row) == [kind |-> "pixel", v |-> <<col, row>>, err |-> ""]
GRaise(err) == [kind |-> "raise", v |-> <<0, 0>>, err |-> err]

\* Affine.determinant
Determinant(g) == g.a * g.e - g.b * g.d

\* int(n / q) for q > 0: truncation towards zero
Trunc(n, q) == IF n >= 0 THEN n \div q ELSE -((-n) \div q)

\* the bug of clamping an index that is out of bounds to the last pixel
pixel2coord_clamping(g, col, row) ==
    LET c2 == IF col >= g.x_size THEN g.x_size - 1 ELSE col
        r2 == IF row >= g.y_size THEN g.y_size - 1 ELSE row
    IN  GCoord(g.a * (2 * c2 + 1) + g.b * (2 * r2 + 1) + 2 * g.c,
               g.d * (2 * c2 + 1) + g.e * (2 * r2 + 1) + 2 * g.f)

\* grid.py pixel2coord: affine * (col + 0.5, row + 0.5), doubled
pixel2coord(g, col, row) ==
    IF col >= g.x_size THEN GRaise("IndexError")
    ELSE IF row >= g.y_size THEN GRaise("IndexError")
    ELSE GCoord(g.a * (2 * col + 1) + g.b * (2 * row + 1) + 2 * g.c,
                g.d * (2 * col + 1) + g.e * (2 * row + 1) + 2 * g.f)

coord2pixel_rounding(g, x2, y2) ==
    LET det == Determinant(g)
        sgn == IF det < 0 THEN -1 ELSE 1
        q == 2 * det * sgn
        coln == sgn * (g.e * (x2 - 2 * g.c) - g.b * (y2 - 2 * g.f))
        rown == sgn * (g.a * (y2 - 2 * g.f) - g.d * (x2 - 2 * g.c))
    IN  IF det = 0 THEN GRaise("TransformNotInvertibleError")
        ELSE IF coln > g.x_size * q \/ coln < 0 THEN GRaise("IndexError")
        ELSE IF rown > g.y_size * q \/ rown < 0 THEN GRaise("IndexError")
        ELSE GPixel((2 * coln + q) \div (2 * q), (2 * rown + q) \div (2 * q))

\* grid.py coord2pixel: (col, row) = ~affine * (x, y) as the fractions coln/q and
\* rown/q; the inverse of a degenerate transform does not exist (Affine raises)
coord2pixel(g, x2, y2) ==
    LET det == Determinant(g)
        sgn == IF det < 0 THEN -1 ELSE 1
        q == 2 * det * sgn
        coln == sgn * (g.e * (x2 - 2 * g.c) - g.b * (y2 - 2 * g.f))
        rown == sgn * (g.a * (y2 - 2 * g.f) - g.d * (x2 - 2 * g.c))
    IN  IF det = 0 THEN GRaise("TransformNotInvertibleError")
        ELSE IF coln > g.x_size * q \/ coln < 0 THEN GRaise("IndexError")
        ELSE IF rown > g.y_size * q \/ rown < 0 THEN GRaise("IndexError")
        ELSE GPixel(Trunc(coln, q), Trunc(rown, q))

\* four bounding values, doubled like every world coordinate
GBounds(v1, v2, v3, v4) == [kind |-> "bounds", v |-> <<v1, v2, v3, v4>>, err |-> ""]

\* affine * (col, row), doubled
Affine2(g, col, row) == <<2 * (g.a * col + g.b * row + g.c), 2 * (g.d * col + g.e * row + g.f)>>

\* the target projections tried: one whose coordinates are those of the grid's
\* own projection moved by a false easting, and one whose axes come in the
\* other order (as EPSG:4326 does under GDAL 3)
NoProjection == "none"
Projections == {"shifted", "swapped"}

\* osr.CoordinateTransformation(...).TransformPoint(x, y)[:2], on doubled coordinates
TransformPoint(proj, pt) ==
    IF proj = "shifted" THEN <<pt[1] + 2, pt[2]>>
    ELSE IF proj = "swapped" THEN <<pt[2], pt[1]>>
    ELSE pt

SetMin(S) == CHOOSE m \in S : \A n \in S : m <= n
SetMax(S) == CHOOSE m \in S : \A n \in S : m >= n

\* the bug of warping every dataset to pixels of size one
AutoCreateWarpedVRT_unitPixels(g, proj) ==
    LET pts == {TransformPoint(proj, Affine2(g, col, row)) : col \in {0, g.x_size}, row \in {0, g.y_size}}
        x_min == SetMin({pt[1] : pt \in pts}) \div 2
        x_max == SetMax({pt[1] : pt \in pts}) \div 2
        y_min == SetMin({pt[2] : pt \in pts}) \div 2
        y_max == SetMax({pt[2] : pt \in pts}) \div 2
    IN  [a |-> 1, b |-> 0, c |-> x_min, d |-> 0, e |-> -1, f |-> y_max,
         x_size |-> x_max - x_min, y_size |-> y_max - y_min]

\* grid.py gdal_reproject, lines 671-675: the dataset gdal.AutoCreateWarpedVRT
\* suggests.  A north-up dataset warped within its own coordinate system keeps
\* its transform and size; any other comes north-up with unrotated square
\* pixels over the box around the projected footprint of the source, the pixel
\* size kept when the source pixels are square and unrotated
AutoCreateWarpedVRT(g, proj) ==
    IF proj = "same" /\ g.b = 0 /\ g.d = 0 /\ g.a > 0 /\ g.e < 0 THEN g
    ELSE
        LET pts == {TransformPoint(proj, Affine2(g, col, row)) : col \in {0, g.x_size}, row \in {0, g.y_size}}
            x_min == SetMin({pt[1] : pt \in pts}) \div 2
            x_max == SetMax({pt[1] : pt \in pts}) \div 2
            y_min == SetMin({pt[2] : pt \in pts}) \div 2
            y_max == SetMax({pt[2] : pt \in pts}) \div 2
            res == IF g.b = 0 /\ g.d = 0 /\ Abs(g.a) = Abs(g.e) THEN Abs(g.a) ELSE 1
        IN  [a |-> res, b |-> 0, c |-> x_min, d |-> 0, e |-> -res, f |-> y_max,
             x_size |-> (x_max - x_min) \div res, y_size |-> (y_max - y_min) \div res]

\* grid.py GDALGrid.bounds, lines 151-153: the bounds in the grid's own projection
bounds_own(g) ==
    LET lo == Affine2(g, 0, g.y_size)
        hi == Affine2(g, g.x_size, 0)
    IN  GBounds(lo[1], hi[1], lo[2], hi[2])

\* grid.py GDALGrid.bounds: with a projection the whole grid is reprojected by
\* to_projection and the bounds are those of the new grid; a footprint without
\* area has no warped dataset
bounds(g, proj) ==
    IF proj = NoProjection THEN bounds_own(g)
    ELSE IF Determinant(g) = 0 THEN GRaise("RuntimeError")
    ELSE bounds_own(AutoCreateWarpedVRT(g, proj))

\* xgeo.py XGeo.bounds of an array with the grid's transform and shape: the
\* rotation terms are not read, the values come as (x, y) of one corner and
\* (x, y) of the other, and with a projection each corner is transformed
xgeo_bounds(g, proj) ==
    LET bnds == <<2 * g.c, 2 * (g.f + g.e * g.y_size), 2 * (g.c + g.a * g.x_size), 2 * g.f>>
    IN  IF proj = NoProjection THEN GBounds(bnds[1], bnds[2], bnds[3], bnds[4])
        ELSE LET gbnds0 == TransformPoint(proj, <<bnds[1], bnds[2]>>)
                 gbnds1 == TransformPoint(proj, <<bnds[3], bnds[4]>>)
             IN  GBounds(gbnds0[1], gbnds0[2], gbnds1[1], gbnds1[2])

\* the x and y coordinates of the array read from an unrotated dataset: the
\* pixel centres, doubled, in pixel order
XCoords(g) == [i \in 1..g.x_size |-> g.a * (2 * i - 1) + 2 * g.c]
YCoords(g) == [j \in 1..g.y_size |-> g.e * (2 * j - 1) + 2 * g.f]

\* util.py TileLocator.get_bounds
get_bounds(g) ==
    <<XCoords(g)[1], XCoords(g)[g.x_size], YCoords(g)[1], YCoords(g)[g.y_size]>>

\* list.sort() of a pair, ascending or reversed
SortPair(pair, reverse) ==
    IF (pair[1] <= pair[2]) # reverse THEN pair ELSE <<pair[2], pair[1]>>

\* the coordinates picked by .sel(slice(lo, hi)) on a monotonic coordinate: those
\* from lo to hi in the direction of the coordinate, both ends included; a slice
\* that runs against the coordinate picks nothing
Sel(coords, bnds) ==
    SelectSeq(coords,
              LAMBDA v : IF coords[1] <= coords[Len(coords)]
                         THEN bnds[1] <= v /\ v <= bnds[2]
                         ELSE bnds[1] >= v /\ v >= bnds[2])

\* the sub-window subset gives back: the bounds as sorted, and the x and y
\* coordinates that are left
GWindow(xbounds, ybounds, xs, ys) ==
    [kind |-> "window", v |-> <<xbounds, ybounds, xs, ys>>, err |-> ""]

\* xrio.py XRio.subset
subset(g, xbounds, ybounds) ==
    LET tile_bounds == get_bounds(g)
        xb == SortPair(xbounds, FALSE)
        yb == SortPair(ybounds, tile_bounds[3] > tile_bounds[4])
    IN  GWindow(xb, yb, Sel(XCoords(g), xb), Sel(YCoords(g), yb))

\* the values the bounds of a sub-window are drawn from, doubled
SubsetBounds == {-MaxCoord, -2, 0, 2, MaxCoord}

\* subset of the array read from the dataset, when its pixels are unrotated
Subset ==
    /\ gcall.op = "idle"
    /\ grid.b = 0 /\ grid.d = 0
    /\ \E xbounds \in SubsetBounds \X SubsetBounds, ybounds \in SubsetBounds \X SubsetBounds :
          /\ gcall' = [op |-> "subset", a |-> <<xbounds, ybounds>>]
          /\ gret' = subset(grid, xbounds, ybounds)
    /\ UNCHANGED <<grid, tileVars, loadVars, lakeVars, mwpVars, wrote, rasterVars>>

Bounds ==
    /\ gcall.op = "idle"
    /\ \E proj \in {NoProjection} \cup Projections :
          /\ gcall' = [op |-> "bounds", a |-> <<proj>>]
          /\ gret' = bounds(grid, proj)
    /\ UNCHANGED <<grid, tileVars, loadVars, lakeVars, mwpVars, wrote, rasterVars>>

XGeoBounds ==
    /\ gcall.op = "idle"
    /\ \E proj \in {NoProjection} \cup Projections :
          /\ gcall' = [op |-> "xgeo_bounds", a |-> <<proj>>]
          /\ gret' = xgeo_bounds(grid, proj)
    /\ UNCHANGED <<grid, tileVars, loadVars, lakeVars, mwpVars, wrote, rasterVars>>

Pixel2Coord ==
    /\ gcall.op = "idle"
    /\ \E col \in -1..MaxSize, row \in -1..MaxSize :
          /\ gcall' = [op |-> "pixel2coord", a |-> <<col, row>>]
          /\ gret' = pixel2coord(grid, col, row)
    /\ UNCHANGED <<grid, tileVars, loadVars, lakeVars, mwpVars, wrote, rasterVars>>

Coord2Pixel ==
    /\ gcall.op = "idle"
    /\ \E x2 \in -MaxCoord..MaxCoord, y2 \in -MaxCoord..MaxCoord :
          /\ gcall' = [op |-> "coord2pixel", a |-> <<x2, y2>>]
          /\ gret' = coord2pixel(grid, x2, y2)
    /\ UNCHANGED <<grid, tileVars, loadVars, lakeVars, mwpVars, wrote, rasterVars>>

\* coord2pixel of the coordinate pixel2coord has just returned; the call record
\* keeps the pixel the round trip started from
RoundTrip ==
    /\ gcall.op = "pixel2coord" /\ gret.kind = "coord"
    /\ gcall' = [op |-> "roundtrip", a |-> gcall.a]
    /\ gret' = coord2pixel(grid, gret.v[1], gret.v[2])
    /\ UNCHANGED <<grid, tileVars, loadVars, lakeVars, mwpVars, wrote, rasterVars>>

GridReturn ==
    /\ gcall.op # "idle"
    /\ gcall' = Idle
    /\ gret' = GNone
    /\ UNCHANGED <<grid, tileVars, loadVars, lakeVars, mwpVars, wrote, rasterVars>>

(***************************************************************************)
(*                  Raster datasets: bands and nodata                      *)
(***************************************************************************)

\* the largest number of bands of a dataset
MaxBands == 2

\* grid.py resample_grid, line 592: the nodata value given to a band without one
NoDataSentinel == -9999

\* GetNoDataValue(): None, or the declared value
NoNodata == [declared |-> FALSE, value |-> 0]
Nodata(v) == [declared |-> TRUE, value |-> v]

\* the pixel values and the nodata declarations of the bands
PixelValues == {0, 7}
NodataValues == {NoNodata} \cup {Nodata(v) : v \in PixelValues}

\* the pixels of a band, row by row: the first pixel varies, the others hold 7
BandData(npix) == {[i \in 1..npix |-> IF i = 1 THEN v ELSE 7] : v \in PixelValues}

\* the geometries of the datasets: north-up with square pixels, of two pixel
\* sizes and two widths, and one with a rotation term
RasterGeoms ==
    {[a |-> a, b |-> 0, c |-> a - 1, d |-> 0, e |-> -a, f |-> 1 - a, x_size |-> w, y_size |-> 1] :
        a \in {1, 2}, w \in {1, 2}}
    \cup {[a |-> 1, b |-> 1, c |-> 0, d |-> 0, e |-> -1, f |-> 0, x_size |-> 2, y_size |-> 1]}

\* the coordinate systems of the datasets (GetProjection())
CRSs == {"utm", "geographic"}

\* the source datasets: a geometry, a projection, one to MaxBands bands
SourceDatasets ==
    UNION {{[g |-> g, proj |-> pr, bands |-> bs] :
               g \in {x \in RasterGeoms : x.x_size * x.y_size = npix}, pr \in CRSs,
               bs \in UNION {[1..n -> [nodata : NodataValues, data : BandData(npix)]] : n \in 1..MaxBands}} :
           npix \in {1, 2}}

\* the reference datasets: one band, north-up, and a geometry other than the unit pixel
MatchDatasets ==
    {[g |-> g, proj |-> pr, bands |-> <<[nodata |-> NoNodata, data |-> [i \in 1..(g.x_size) |-> 7]]>>] :
        g \in {x \in RasterGeoms : x.a # x.x_size /\ x.b = 0}, pr \in CRSs}

NoDataset == [g |-> <<>>, proj |-> "", bands |-> <<>>]

\* what a call on a dataset gives back
RNone == [kind |-> "none", ds |-> NoDataset, data |-> <<>>, ndim |-> 0, masked |-> FALSE,
          mask |-> <<>>, nan |-> {}, err |-> ""]
RPyNone == [RNone EXCEPT !.kind = "None"]
RRaise(err) == [RNone EXCEPT !.kind = "raise", !.err = err]
RDataset(kind, ds) == [RNone EXCEPT !.kind = kind, !.ds = ds]
\* a numpy array of the data of some bands, plain or masked
RArray(data, ndim, masked, mask) ==
    [RNone EXCEPT !.kind = "ndarray", !.data = data, !.ndim = ndim, !.masked = masked, !.mask = mask]

\* grid.py GDALGrid.np_array: with band < 0 the whole dataset is read and the
\* masked flag is not looked at; GetRasterBand of a band the dataset does not
\* have gives None, whose ReadAsArray fails; a band with a nodata value, read
\* masked, comes as a masked array whose mask is (grid_data == nodata_value)
np_array(ds, band, masked) ==
    IF band < 0
    THEN RArray([i \in DOMAIN ds.bands |-> ds.bands[i].data],
                IF Len(ds.bands) = 1 THEN 2 ELSE 3, FALSE, <<>>)
    ELSE IF band \notin DOMAIN ds.bands THEN RRaise("AttributeError")
    ELSE LET grid_data == ds.bands[band].data
             nodata_value == ds.bands[band].nodata
         IN  IF nodata_value.declared /\ masked
             THEN RArray(<<grid_data>>, 2, TRUE,
                         <<[i \in DOMAIN grid_data |-> grid_data[i] = nodata_value.value]>>)
             ELSE RArray(<<grid_data>>, 2, FALSE, <<>>)

\* grid.py GDALGrid.xarray: xr.DataArray over dims (y, x) refuses data of three
\* dimensions, and turns a masked array into a plain one with NaN at the
\* masked pixels
xarray(ds, band, masked) ==
    LET xy_data == np_array(ds, band, masked)
    IN  IF xy_data.kind = "raise" THEN xy_data
        ELSE IF xy_data.ndim # 2 THEN RRaise("ValueError")
        ELSE [xy_data EXCEPT !.kind = "DataArray", !.masked = FALSE, !.mask = <<>>,
                             !.nan = IF xy_data.masked
                                     THEN {i \in DOMAIN xy_data.mask[1] : xy_data.mask[1][i]}
                                     ELSE {}]

\* xgeo.py XGeo.loadRasterFile: band defaults to -1
loadRasterFile(ds, band) == xarray(ds, band, TRUE)

\* gdal.ReprojectImage / the warped dataset: the pixels of a destination band
\* are resampled from the source; their values are not modelled
Resampled(g) == [i \in 1..(g.x_size * g.y_size) |-> 7]

\* grid.py resample_grid, lines 590-592: 'if not nodata_value' holds for None
\* and for 0
resample_nodata(nodata_value) ==
    IF ~nodata_value.declared \/ nodata_value.value = 0 THEN Nodata(NoDataSentinel)
    ELSE nodata_value

\* the bug of keeping the geometry of the source
resample_dst_ofSource(src, match_ds) ==
    [g |-> src.g, proj |-> match_ds.proj,
     bands |-> [band_i \in 1..Len(src.bands) |->
                   [nodata |-> src.bands[band_i].nodata, data |-> src.bands[band_i].data]]]

\* grid.py resample_grid, lines 580-599: the destination dataset
resample_dst(src, match_ds) ==
    [g |-> match_ds.g, proj |-> match_ds.proj,
     bands |-> [band_i \in 1..Len(src.bands) |->
                   [nodata |-> resample_nodata(src.bands[band_i].nodata),
                    data |-> Resampled(match_ds.g)]]]

\* grid.py resample_grid, lines 601-606: what is returned
resample_grid(src, match_ds, to_file, as_gdal_grid) ==
    IF ~to_file
    THEN RDataset(IF as_gdal_grid THEN "GDALGrid" ELSE "Dataset", resample_dst(src, match_ds))
    ELSE RPyNone

\* the coordinate transformation from one of the coordinate systems to another
Transformation(src_srs, dst_srs) ==
    IF src_srs = dst_srs THEN "same" ELSE IF dst_srs = "geographic" THEN "swapped" ELSE "shifted"

\* grid.py gdal_reproject with as_gdal_grid, as to_projection calls it: the
\* warped dataset, whose bands carry the nodata values of the source bands
gdal_reproject(src, dst_srs) ==
    RDataset("GDALGrid",
             [g |-> AutoCreateWarpedVRT(src.g, Transformation(src.proj, dst_srs)),
              proj |-> dst_srs,
              bands |-> [i \in DOMAIN src.bands |->
                            [nodata |-> src.bands[i].nodata,
                             data |-> Resampled(AutoCreateWarpedVRT(src.g, Transformation(src.proj, dst_srs)))]]])

\* grid.py GDALGrid.to_projection
to_projection(src, dst_proj) == gdal_reproject(src, dst_proj)

\* the datasets in hand: the source, the reference, and the files written
Rasters ==
    {[src |-> sd, match |-> md, files |-> {}] : sd \in SourceDatasets, md \in MatchDatasets}

NpArray ==
    /\ rcall.op = "idle"
    /\ \E band \in -1..(MaxBands + 1), masked \in BOOLEAN :
          /\ rcall' = [op |-> "np_array", band |-> band, masked |-> masked, raster0 |-> raster]
          /\ rret' = np_array(raster.src, band, masked)
    /\ UNCHANGED <<raster, tileVars, loadVars, gridVars, lakeVars, mwpVars, wrote>>

LoadRasterFile ==
    /\ rcall.op = "idle"
    /\ \E band \in -1..MaxBands :
          /\ rcall' = [op |-> "loadRasterFile", band |-> band, masked |-> TRUE, raster0 |-> raster]
          /\ rret' = loadRasterFile(raster.src, band)
    /\ UNCHANGED <<raster, tileVars, loadVars, gridVars, lakeVars, mwpVars, wrote>>

\* resample_grid; with to_file the destination is written to that file
ResampleGrid ==
    /\ rcall.op = "idle"
    /\ \E to_file \in BOOLEAN, as_gdal_grid \in BOOLEAN :
          /\ rcall' = [op |-> "resample_grid", to_file |-> to_file, raster0 |-> raster]
          /\ rret' = resample_grid(raster.src, raster.match, to_file, as_gdal_grid)
          /\ raster' = IF to_file
                       THEN [raster EXCEPT !.files = @ \cup {resample_dst(raster.src, raster.match)}]
                       ELSE raster
    /\ UNCHANGED <<tileVars, loadVars, gridVars, lakeVars, mwpVars, wrote>>

ToProjection ==
    /\ rcall.op = "idle"
    /\ \E dst_proj \in CRSs :
          /\ rcall' = [op |-> "to_projection", dst_proj |-> dst_proj, raster0 |-> raster]
          /\ rret' = to_projection(raster.src, dst_proj)
    /\ UNCHANGED <<raster, tileVars, loadVars, gridVars, lakeVars, mwpVars, wrote>>

RasterReturn ==
    /\ rcall.op # "idle"
    /\ rcall' = Idle
    /\ rret' = RNone
    /\ UNCHANGED <<raster, tileVars, loadVars, gridVars, lakeVars, mwpVars, wrote>>

(***************************************************************************)
(*                          LakeMaskProcessor                              *)
(***************************************************************************)

\* the lake indices of lake_index_range and the years of year_range
MaxLakes == 2
MaxYears == 2

LakeIds == 1..MaxLakes
Years == 1..MaxYears

\* the value of a Python name bound to nothing, or to None
None == [kind |-> "None", results |-> {}, failures |-> {}]

\* range(lake_index_range[0], lake_index_range[1] + 1)
LakeIndexRange == [i \in 1..MaxLakes |-> i]

\* the bug of looking every lake of the range up in the later years
later_year_indices_wholeRange(lake_indices) == LakeIndexRange

\* processing.py process_lakes, line 28: after the first year the loop runs over
\* the lakes collected in the first year
later_year_indices(lake_indices) == lake_indices

\* lake_masks and lake_indices before the loops, processing.py lines 24-25
NoLakeMasks == [lake_masks |-> <<>>, lake_indices |-> <<>>, err |-> ""]

RECURSIVE LakeLoop(_, _, _, _, _)
\* processing.py process_lakes, lines 29-36: the loop over _lake_indices from its
\* k-th entry on, in one year; lake_masks[lake_index][year] = ... raises KeyError
\* when lake_masks has no entry for the lake
LakeLoop(exists, year, indices, k, st) ==
    IF k > Len(indices) \/ st.err # "" THEN st
    ELSE
        LET lake_index == indices[k]
            isfile == <<lake_index, year>> \in exists
        IN  LakeLoop(exists, year, indices, k + 1,
                IF ~isfile THEN st
                ELSE IF year = 1
                THEN [st EXCEPT !.lake_masks = (lake_index :> <<year>>) @@ @,
                                !.lake_indices = Append(@, lake_index)]
                ELSE IF lake_index \notin DOMAIN st.lake_masks
                THEN [st EXCEPT !.err = "KeyError"]
                ELSE [st EXCEPT !.lake_masks = [@ EXCEPT ![lake_index] = Append(@, year)]])

RECURSIVE YearLoop(_, _, _)
\* processing.py process_lakes, lines 26-36: the loop over the years from year on
YearLoop(exists, year, st) ==
    IF year > MaxYears \/ st.err # "" THEN st
    ELSE YearLoop(exists, year + 1,
                  LakeLoop(exists, year,
                           IF year > 1 THEN later_year_indices(st.lake_indices) ELSE LakeIndexRange,
                           1, st))

\* processing.py process_lakes, lines 24-36: lake_masks, keyed by the lakes whose
\* file of the first year exists, each with the years whose file exists
build_lake_masks(exists) == YearLoop(exists, 1, NoLakeMasks)

lake_masks(exists) == build_lake_masks(exists).lake_masks

\* processing.py process_lakes, lines 41-43: the list p.map returned is bound to
\* a local name and dropped; the function ends without a return statement
process_lakes_return(results, failures) == None

\* the batch before the call: which mask files exist, whether the inputs are
\* reprojected first, and whether results_dir names a writable directory
LakeBatches ==
    {[exists |-> x, reproject_inputs |-> r, results_dir_ok |-> w, lake_masks |-> <<>>] :
        x \in SUBSET (LakeIds \X Years), r \in BOOLEAN, w \in BOOLEAN}

\* process_lakes up to the pool: lake_masks is built; with reproject_inputs each
\* file goes through XRio.convert, whose error leaves process_lakes at once, as
\* does an error of the loops
ProcessLakes ==
    /\ batch.op = "idle"
    /\ \E convert_ok \in BOOLEAN :
          /\ (~convert_ok) => (lakes.reproject_inputs /\ DOMAIN lake_masks(lakes.exists) # {})
          /\ lakes' = [lakes EXCEPT !.lake_masks = lake_masks(lakes.exists)]
          /\ IF build_lake_masks(lakes.exists).err # ""
             THEN /\ batch' = [op |-> "raised", ret |-> None, err |-> build_lake_masks(lakes.exists).err]
                  /\ unit' = unit
             ELSE IF convert_ok
             THEN /\ batch' = [op |-> "map", ret |-> None, err |-> ""]
                  /\ unit' = [lake \in DOMAIN lake_masks(lakes.exists) |-> "pending"]
             ELSE /\ batch' = [op |-> "raised", ret |-> None, err |-> "RasterioIOError"]
                  /\ unit' = unit
    /\ UNCHANGED <<reports, wrote, tileVars, loadVars, gridVars, mwpVars, rasterVars>>

\* a pool worker takes the lake's item
StartUnit(lake) ==
    /\ batch.op = "map" /\ lake \in DOMAIN unit /\ unit[lake] = "pending"
    /\ unit' = [unit EXCEPT ![lake] = "running"]
    /\ UNCHANGED <<lakes, reports, batch, wrote, tileVars, loadVars, gridVars, mwpVars, rasterVars>>

\* process_lake_mask, lines 47-55: nothing raises, the unit returns its result
UnitCompletes(lake) ==
    /\ batch.op = "map" /\ lake \in DOMAIN unit /\ unit[lake] = "running"
    /\ unit' = [unit EXCEPT ![lake] = "ok"]
    /\ UNCHANGED <<lakes, reports, batch, wrote, tileVars, loadVars, gridVars, mwpVars, rasterVars>>

\* the bug of one report file for the whole batch
report_path_shared(results_dir, lake_index) == <<results_dir, "/task_report.txt">>

\* processing.py write_result_report, line 75: the path of a lake's report file
report_path(results_dir, lake_index) ==
    <<results_dir, "/lake_">> \o DecDigits(lake_index) \o <<"_task_report.txt">>

\* a work unit of the lake pool: one item of lake_masks.items(), keyed by its lake
LakeUnit(lake) == <<"lake", lake>>

\* process_lake_mask, lines 56-59: an error inside the try is caught and
\* write_result_report opens the lake's report file for appending; the open()
\* is outside any try, so its error leaves the unit
UnitFails(lake) ==
    /\ batch.op = "map" /\ lake \in DOMAIN unit /\ unit[lake] = "running"
    /\ IF lakes.results_dir_ok
       THEN /\ unit' = [unit EXCEPT ![lake] = "writing"]
            /\ wrote' = wrote \cup {[unit |-> LakeUnit(lake),
                                     path |-> report_path("results_dir", lake)]}
       ELSE /\ unit' = [unit EXCEPT ![lake] = "raised"]
            /\ wrote' = wrote
    /\ UNCHANGED <<lakes, reports, batch, tileVars, loadVars, gridVars, mwpVars, rasterVars>>

\* write_result_report, lines 76-77: the traceback is appended and the file closed
ReportWritten(lake) ==
    /\ batch.op = "map" /\ lake \in DOMAIN unit /\ unit[lake] = "writing"
    /\ \E detail \in {"AttributeError", "ValueError"} :
          reports' = [reports EXCEPT ![lake] = Append(@, [lake |-> lake, detail |-> detail])]
    /\ unit' = [unit EXCEPT ![lake] = "reported"]
    /\ UNCHANGED <<lakes, batch, wrote, tileVars, loadVars, gridVars, mwpVars, rasterVars>>

\* p.map returns once every item is done: it re-raises an error that left a
\* unit, and otherwise process_lakes runs to its end
MapReturns ==
    /\ batch.op = "map"
    /\ \A lake \in DOMAIN unit : unit[lake] \in {"ok", "reported", "raised"}
    /\ batch' = IF \E lake \in DOMAIN unit : unit[lake] = "raised"
                THEN [op |-> "raised", ret |-> None, err |-> "FileNotFoundError"]
                ELSE [op |-> "returned",
                      ret |-> process_lakes_return({l \in DOMAIN unit : unit[l] = "ok"},
                                                   {l \in DOMAIN unit : unit[l] = "reported"}),
                      err |-> ""]
    /\ UNCHANGED <<lakes, unit, reports, wrote, tileVars, loadVars, gridVars, mwpVars, rasterVars>>

(***************************************************************************)
(*                            MWPDataManager                               *)
(***************************************************************************)

\* the 10-degree steps of range(10,181,10) and range(10,71,10) that are modelled,
\* and the largest nProcesses
MaxLonSteps == 1
MaxLatSteps == 1
MaxProcs == 2

\* f"{ix:03d}{xhemi}{iy:03d}{yhemi}", the location of a tile
Location(ix, xhemi, iy, yhemi) == Fmt03d(ix) \o <<xhemi>> \o Fmt03d(iy) \o <<yhemi>>

\* mwp.py get_global_locations, lines 105-118: the three loops, in their order
get_global_locations ==
    LET xhemis == <<"E", "W">>
        yhemis == <<"N", "S">>
        nx == MaxLonSteps
        ny == MaxLatSteps
        cells == [k \in 1..(nx * 2 * ny * 2) |->
                    LET i == k - 1
                    IN  Location(10 * ((i \div (4 * ny)) + 1), xhemis[((i \div (2 * ny)) % 2) + 1],
                                 10 * (((i \div 2) % ny) + 1), yhemis[(i % 2) + 1])]
        equator == [k \in 1..(nx * 2) |->
                    LET i == k - 1
                    IN  Fmt03d(10 * ((i \div 2) + 1)) \o <<xhemis[(i % 2) + 1]>> \o <<"0", "0", "0", "S">>]
        meridian == [k \in 1..(ny * 2) |->
                    LET i == k - 1
                    IN  <<"0", "0", "0", "E">> \o Fmt03d(10 * ((i \div 2) + 1)) \o <<yhemis[(i % 2) + 1]>>]
    IN  cells \o equator \o meridian

\* mwp.py get_tile, lines 75-80: os.path.join(location_dir, target_file) with
\* location_dir = data_dir/location and target_file MWP_{iY}{iFile:03}_{location}_{product}.tif
target_file_path(location, iY, iFile, product) ==
    <<"data_dir", "/">> \o location \o <<"/", "MWP_">> \o DecDigits(iY) \o Fmt03d(iFile)
        \o <<"_">> \o location \o <<"_", product, ".tif">>

RECURSIVE TargetsFrom(_, _, _, _)
\* get_tile, lines 77-78: the (iY, iFile) pairs of the two loops, in their order
TargetsFrom(years, k, start_day, end_day) ==
    IF k > Len(years) THEN <<>>
    ELSE [d \in 1..(IF end_day > start_day THEN end_day - start_day ELSE 0) |-> <<years[k], start_day + d>>]
         \o TargetsFrom(years, k + 1, start_day, end_day)

Targets(b) == TargetsFrom(b.years, 1, b.start_day, b.end_day)

\* a work unit of the download pool: one item of locations, by its position
TileUnit(i) == <<"tile", i>>
TileUnits == 1..Len(get_global_locations)

\* the location setDefaults gives the manager in the main block, line 140
DefaultLocation == <<"1", "2", "0", "W", "0", "5", "0", "N">>

\* the manager before download_tiles: its parameters and whether the server
\* answers; the global download is for one year, that of one location for one or two
DownloadBatches ==
    {b \in [op : {"idle"}, location : {<<>>, <<DefaultLocation>>}, download : BOOLEAN,
            nProcesses : 1..MaxProcs, years : {<<2018>>, <<2018, 2019>>},
            start_day : {0}, end_day : {1}, online : BOOLEAN, locations : {<<>>}, next : {0}] :
        Len(b.years) = 1 \/ b.location # <<>>}

\* mwp.py download_tiles, lines 130-133: the locations, then the pool of
\* nProcesses processes; map cuts the locations into chunks of nProcesses items
DownloadTiles ==
    /\ dl.op = "idle"
    /\ dl' = [dl EXCEPT !.op = "map", !.next = 1,
                        !.locations = IF dl.location = <<>> THEN get_global_locations
                                      ELSE dl.location]
    /\ worker' = {}
    /\ UNCHANGED <<tilefiles, wrote, tileVars, loadVars, gridVars, lakeVars, rasterVars>>

\* a free pool process takes the next chunk and enters get_tile for its first
\* item; worker holds what the busy processes are at
TakeChunk ==
    /\ dl.op = "map" /\ Cardinality(worker) < dl.nProcesses
    /\ dl.next <= Len(dl.locations)
    /\ LET last == IF dl.next + dl.nProcesses - 1 < Len(dl.locations)
                   THEN dl.next + dl.nProcesses - 1 ELSE Len(dl.locations)
       IN  /\ worker' = worker \cup {[unit |-> dl.next, last |-> last, file |-> 1, phase |-> "check"]}
           /\ dl' = [dl EXCEPT !.next = last + 1]
    /\ UNCHANGED <<tilefiles, wrote, tileVars, loadVars, gridVars, lakeVars, rasterVars>>

\* get_tile, lines 77-78 and 93: after a file the loops go on with the next one;
\* after the last the unit returns and the process goes on with the next item of
\* its chunk, or is free again
Advance(b, wk) ==
    IF wk.file < Len(Targets(b)) THEN {[wk EXCEPT !.file = @ + 1, !.phase = "check"]}
    ELSE IF wk.unit < wk.last THEN {[wk EXCEPT !.unit = @ + 1, !.file = 1, !.phase = "check"]}
    ELSE {}

\* get_tile, lines 79-92, one pass of the inner loop up to the download: a file
\* that exists is kept; a missing one is fetched when download is set, and
\* wget.download opens target_file_path unless the server does not answer
GetTileCheck(i) ==
    /\ dl.op = "map" /\ \E x \in worker : x.unit = i /\ x.phase = "check"
    /\ LET wk == CHOOSE x \in worker : x.unit = i
           t == Targets(dl)[wk.file]
           path == target_file_path(dl.locations[wk.unit], t[1], t[2], "1D1OS")
       IN  IF path \notin tilefiles /\ dl.download /\ dl.online
           THEN /\ worker' = (worker \ {wk}) \cup {[wk EXCEPT !.phase = "writing"]}
                /\ wrote' = wrote \cup {[unit |-> TileUnit(wk.unit), path |-> path]}
           ELSE /\ worker' = (worker \ {wk}) \cup Advance(dl, wk)
                /\ wrote' = wrote
    /\ UNCHANGED <<dl, tilefiles, tileVars, loadVars, gridVars, lakeVars, rasterVars>>

\* get_tile, lines 85-87: the download ends and the file is there
GetTileWritten(i) ==
    /\ dl.op = "map" /\ \E x \in worker : x.unit = i /\ x.phase = "writing"
    /\ LET wk == CHOOSE x \in worker : x.unit = i
           t == Targets(dl)[wk.file]
       IN  /\ tilefiles' = tilefiles \cup {target_file_path(dl.locations[i], t[1], t[2], "1D1OS")}
           /\ worker' = (worker \ {wk}) \cup Advance(dl, wk)
    /\ UNCHANGED <<dl, wrote, tileVars, loadVars, gridVars, lakeVars, rasterVars>>

\* download_tiles, line 133: map returns once every chunk is done
DownloadReturns ==
    /\ dl.op = "map" /\ dl.next > Len(dl.locations)
    /\ worker = {}
    /\ dl' = [dl EXCEPT !.op = "returned"]
    /\ UNCHANGED <<worker, tilefiles, wrote, tileVars, loadVars, gridVars, lakeVars, rasterVars>>

(***************************************************************************)
(*                           The specifications                            *)
(***************************************************************************)

\* TileLocator: a call is drawn, then made
InitTiles ==
    /\ tcall \in TileCalls /\ tret = Pending
    /\ fs = <<>> /\ lcall = Idle /\ lret = RetNone
    /\ grid = <<>> /\ gcall = Idle /\ gret = GNone
    /\ lakes = <<>> /\ unit = <<>> /\ reports = <<>> /\ batch = Idle
    /\ dl = Idle /\ worker = {} /\ tilefiles = {} /\ wrote = {}
    /\ raster = <<>> /\ rcall = Idle /\ rret = RNone

NextTiles == LonLabel \/ LatLabel \/ GetTiles

SpecTiles == InitTiles /\ [][NextTiles]_vars

\* XRio: any files, then calls one after another
InitLoad ==
    /\ fs \in [Paths -> FileStates] /\ lcall = Idle /\ lret = RetNone
    /\ tcall = Idle /\ tret = Pending
    /\ grid = <<>> /\ gcall = Idle /\ gret = GNone
    /\ lakes = <<>> /\ unit = <<>> /\ reports = <<>> /\ batch = Idle
    /\ dl = Idle /\ worker = {} /\ tilefiles = {} /\ wrote = {}
    /\ raster = <<>> /\ rcall = Idle /\ rret = RNone

NextLoad == Open \/ Load \/ Load1 \/ Merge \/ Mergable \/ LoadReturn

SpecLoad == InitLoad /\ [][NextLoad]_vars

\* GDALGrid: any dataset, then calls one after another
InitGrid ==
    /\ grid \in Grids /\ gcall = Idle /\ gret = GNone
    /\ tcall = Idle /\ tret = Pending
    /\ fs = <<>> /\ lcall = Idle /\ lret = RetNone
    /\ lakes = <<>> /\ unit = <<>> /\ reports = <<>> /\ batch = Idle
    /\ dl = Idle /\ worker = {} /\ tilefiles = {} /\ wrote = {}
    /\ raster = <<>> /\ rcall = Idle /\ rret = RNone

NextGrid ==
    Pixel2Coord \/ Coord2Pixel \/ RoundTrip \/ Bounds \/ XGeoBounds \/ Subset \/ GridReturn

SpecGrid == InitGrid /\ [][NextGrid]_vars

\* LakeMaskProcessor: one call of process_lakes, its units in any interleaving
InitLakes ==
    /\ lakes \in LakeBatches /\ unit = <<>> /\ batch = Idle
    /\ reports = [lake \in LakeIds |-> <<>>]
    /\ tcall = Idle /\ tret = Pending
    /\ fs = <<>> /\ lcall = Idle /\ lret = RetNone
    /\ grid = <<>> /\ gcall = Idle /\ gret = GNone
    /\ dl = Idle /\ worker = {} /\ tilefiles = {} /\ wrote = {}
    /\ raster = <<>> /\ rcall = Idle /\ rret = RNone

NextLakes ==
    \/ ProcessLakes
    \/ \E lake \in LakeIds : StartUnit(lake)
    \/ \E lake \in LakeIds : UnitCompletes(lake)
    \/ \E lake \in LakeIds : UnitFails(lake)
    \/ \E lake \in LakeIds : ReportWritten(lake)
    \/ MapReturns

SpecLakes == InitLakes /\ [][NextLakes]_vars

\* raster datasets: a source and a reference, then calls one after another
InitRaster ==
    /\ raster \in Rasters /\ rcall = Idle /\ rret = RNone
    /\ tcall = Idle /\ tret = Pending
    /\ fs = <<>> /\ lcall = Idle /\ lret = RetNone
    /\ grid = <<>> /\ gcall = Idle /\ gret = GNone
    /\ lakes = <<>> /\ unit = <<>> /\ reports = <<>> /\ batch = Idle
    /\ dl = Idle /\ worker = {} /\ tilefiles = {} /\ wrote = {}

NextRaster == NpArray \/ LoadRasterFile \/ ResampleGrid \/ ToProjection \/ RasterReturn

SpecRaster == InitRaster /\ [][NextRaster]_vars

\* the pools: one batch runs, the lake processing or the tile download, its
\* units in any interleaving the pool allows
NotRun == [op |-> "not run"]

InitPools ==
    /\ \/ /\ lakes \in LakeBatches /\ batch = Idle /\ reports = [lake \in LakeIds |-> <<>>]
          /\ dl = NotRun /\ tilefiles = {}
       \/ /\ lakes = <<>> /\ batch = NotRun /\ reports = <<>>
          /\ dl \in DownloadBatches
          /\ tilefiles \in {{}, {target_file_path(DefaultLocation, 2018, 1, "1D1OS"),
                                 target_file_path(get_global_locations[1], 2018, 1, "1D1OS")}}
    /\ unit = <<>> /\ worker = {} /\ wrote = {}
    /\ tcall = Idle /\ tret = Pending
    /\ fs = <<>> /\ lcall = Idle /\ lret = RetNone
    /\ grid = <<>> /\ gcall = Idle /\ gret = GNone
    /\ raster = <<>> /\ rcall = Idle /\ rret = RNone

NextPools ==
    \/ ProcessLakes
    \/ \E lake \in LakeIds : StartUnit(lake)
    \/ \E lake \in LakeIds : UnitCompletes(lake)
    \/ \E lake \in LakeIds : UnitFails(lake)
    \/ \E lake \in LakeIds : ReportWritten(lake)
    \/ MapReturns
    \/ DownloadTiles
    \/ TakeChunk
    \/ \E i \in TileUnits : GetTileCheck(i)
    \/ \E i \in TileUnits : GetTileWritten(i)
    \/ DownloadReturns

SpecPools == InitPools /\ [][NextPools]_vars

(***************************************************************************)
(*                    Properties of the TileLocator                        *)
(***************************************************************************)

\* the ids of a returned list, as a set
Ids(results) == {results[k] : k \in DOMAIN results}

\* the number a label's three digits spell, and the label's letter
LabelNumber(label) ==
    LET d(c) == (CHOOSE k \in 1..10 : DigitChars[k] = c) - 1
    IN  100 * d(label[1]) + 10 * d(label[2]) + d(label[3])
LabelLetter(label) == label[Len(label)]

\* the 10-degree column of a longitude (longitudes 360 apart are one place) and
\* the 10-degree row of a latitude; a row holds its northern edge
LonCell(x) == ((x + 1800) % 3600) \div 100
LatCell(y) == (y + 899) \div 100

\* C4: get_tiles(-125,-118,45,52) returns exactly the ids 130W050N, 130W060N,
\* 120W050N and 120W060N, and a box whose four corners lie in one 10-degree cell
\* yields exactly one tile id.
C4_GetTilesExample ==
    (tcall.op = "get_tiles" /\ tret.done) =>
        /\ tcall.a = <<-1250, -1180, 450, 520>> =>
              /\ Ids(tret.v) = { <<"1", "3", "0", "W", "0", "5", "0", "N">>,
                                 <<"1", "3", "0", "W", "0", "6", "0", "N">>,
                                 <<"1", "2", "0", "W", "0", "5", "0", "N">>,
                                 <<"1", "2", "0", "W", "0", "6", "0", "N">> }
              /\ Len(tret.v) = 4
        /\ (LonCell(tcall.a[1]) = LonCell(tcall.a[2]) /\ LatCell(tcall.a[3]) = LatCell(tcall.a[4]))
              => Len(tret.v) = 1

\* the example box has been answered
C4_Witness ==
    tcall.op = "get_tiles" /\ tret.done /\ tcall.a = <<-1250, -1180, 450, 520>>

\* a box inside one cell, with distinct corners, has been answered
C4_WitnessOneCell ==
    /\ tcall.op = "get_tiles" /\ tret.done
    /\ tcall.a[1] # tcall.a[2] /\ tcall.a[3] # tcall.a[4]
    /\ LonCell(tcall.a[1]) = LonCell(tcall.a[2]) /\ LatCell(tcall.a[3]) = LatCell(tcall.a[4])

C6_LonLabelExamples ==
    (tcall.op = "lon_label" /\ tret.done) =>
        /\ tcall.a[1] = -1254 => tret.v = <<"1", "3", "0", "W">>
        /\ tcall.a[1] = 1740 => tret.v = <<"1", "7", "0", "E">>

C6_Witness == tcall.op = "lon_label" /\ tret.done /\ tcall.a[1] = -1254

\* C7 as claimed: for lon in [-180,360) the label is the three digits of
\* floor(|u|/10)*10, u being lon unwrapped into (-180,180] (180 stays 180),
\* followed by E when the value given is non-negative and by W when it is negative.
C7_Original ==
    (tcall.op = "lon_label" /\ tret.done) =>
        LET lon == tcall.a[1]
            u == IF lon > 1800 THEN lon - 3600 ELSE lon
        IN  /\ Len(tret.v) = 4
            /\ LabelNumber(tret.v) = (Abs(u) \div 100) * 10
            /\ LabelLetter(tret.v) = IF lon >= 0 THEN "E" ELSE "W"

\* C7 as amended: for lon in [-180,360) the value is unwrapped into [-180,180)
\* (a value of 180 or more has 360 taken off, so 180 becomes -180); the label is
\* the three digits of |floor(u/10)|*10 of the unwrapped value u (for a negative u
\* the magnitude rounded up to the next ten), followed by E when u is non-negative
\* and by W when u is negative.
C7_LonLabel ==
    (tcall.op = "lon_label" /\ tret.done) =>
        LET lon == tcall.a[1]
            u == ((lon + 1800) % 3600) - 1800
        IN  /\ Len(tret.v) = 4
            /\ LabelNumber(tret.v) = IF u >= 0 THEN (u \div 100) * 10
                                     ELSE ((99 - u) \div 100) * 10
            /\ LabelLetter(tret.v) = IF u >= 0 THEN "E" ELSE "W"

\* a longitude given as 180 or more has been labelled
C7_Witness == tcall.op = "lon_label" /\ tret.done /\ tcall.a[1] >= 1800

C9_CrossProduct ==
    (tcall.op = "get_tiles" /\ tret.done) =>
        LET xl == {lon_label(tcall.a[1]), lon_label(tcall.a[2])}
            yl == {lat_label(tcall.a[3]), lat_label(tcall.a[4])}
        IN  /\ Ids(tret.v) = {x \o y : x \in xl, y \in yl}
            /\ Cardinality(Ids(tret.v)) = Len(tret.v)
            /\ Len(tret.v) \in {1, 2, 4}
            /\ Len(tret.v) < 4 <=> (Cardinality(xl) = 1 \/ Cardinality(yl) = 1)

\* a box with one longitude label and two latitude labels has been answered
C9_Witness ==
    /\ tcall.op = "get_tiles" /\ tret.done /\ Len(tret.v) = 2
    /\ tcall.a[1] # tcall.a[2]
    /\ lon_label(tcall.a[1]) = lon_label(tcall.a[2])

\* a label of the form: three digits spelling a multiple of ten between 0 and
\* top, then one of the two letters
WellFormed(label, top, letters) ==
    /\ Len(label) = 4
    /\ \A k \in 1..3 : \E d \in DOMAIN DigitChars : DigitChars[d] = label[k]
    /\ LabelNumber(label) % 10 = 0 /\ LabelNumber(label) \in 0..top
    /\ label[4] \in letters

\* C21: for every box with longitudes in [-180,360) and latitudes in [-90,90],
\* every id get_tiles returns is three digits of a multiple of 10 between 000 and
\* 180, E or W, three digits of a multiple of 10 between 000 and 090, N or S; and
\* every list get_tiles may return for the box holds the same set of ids.
C21_TileIdForm ==
    (tcall.op = "get_tiles" /\ tret.done) =>
        /\ \A id \in Ids(tret.v) :
              /\ Len(id) = 8
              /\ WellFormed(SubSeq(id, 1, 4), 180, {"E", "W"})
              /\ WellFormed(SubSeq(id, 5, 8), 90, {"N", "S"})
        /\ \A results \in get_tiles(tcall.a[1], tcall.a[2], tcall.a[3], tcall.a[4]) :
              Ids(results) = Ids(tret.v)

\* a box reaching the 180th meridian and the pole has been answered with four ids
C21_Witness ==
    /\ tcall.op = "get_tiles" /\ tret.done /\ Len(tret.v) = 4
    /\ \E id \in Ids(tret.v) : LabelNumber(SubSeq(id, 1, 4)) = 180
    /\ \E id \in Ids(tret.v) : LabelNumber(SubSeq(id, 5, 8)) = 90

\* points of lo..hi no more than 10 degrees apart, both ends included
CellPoints(lo, hi) == {lo + 100 * k : k \in 0..((hi - lo) \div 100)} \cup {hi}

\* C25: for every box with xmin <= xmax and ymin <= ymax inside
\* [-180,180) x [-90,90], get_tiles returns the id of every 10-degree cell the
\* box intersects (the cell of every point of the box), however wide or tall.
C25_Original ==
    (/\ tcall.op = "get_tiles" /\ tret.done
     /\ tcall.a[1] <= tcall.a[2] /\ tcall.a[3] <= tcall.a[4]
     /\ tcall.a[1] >= -1800 /\ tcall.a[2] < 1800) =>
        \A x \in CellPoints(tcall.a[1], tcall.a[2]), y \in CellPoints(tcall.a[3], tcall.a[4]) :
            lon_label(x) \o lat_label(y) \in Ids(tret.v)

\* the signed tenths of a degree a label stands for: W and S count negative
Decode(label) ==
    IF LabelLetter(label) \in {"W", "S"} THEN 0 - 10 * LabelNumber(label)
    ELSE 10 * LabelNumber(label)

\* C26: for lon in [-180,180) the longitude W decoded from lon_label(lon) has
\* W <= lon < W+10, and for lat in [-90,90] the latitude N decoded from
\* lat_label(lat) has N-10 < lat <= N: the labels name the north-west corner of
\* the 10-degree cell of the point.
C26_NorthWestCorner ==
    /\ (tcall.op = "lon_label" /\ tret.done /\ tcall.a[1] \in -1800..1799) =>
          (Decode(tret.v) <= tcall.a[1] /\ tcall.a[1] < Decode(tret.v) + 100)
    /\ (tcall.op = "lat_label" /\ tret.done) =>
          (Decode(tret.v) - 100 < tcall.a[1] /\ tcall.a[1] <= Decode(tret.v))

\* a western longitude inside a cell has been labelled
C26_Witness ==
    /\ tcall.op = "lon_label" /\ tret.done
    /\ tcall.a[1] \in -1800..-1 /\ tcall.a[1] % 100 # 0

(***************************************************************************)
(*                         Properties of XRio                              *)
(***************************************************************************)

\* whether a file of the given list opens, by the files as they were at the call:
\* it is a raster, the mask is of a known kind, and a clip geometry meets it
Opens(call, p) ==
    /\ call.fs0[p].kind = "raster"
    /\ call.kw.mask \in {"none", "list", "gdf"}
    /\ call.kw.mask = "gdf" => p \notin call.kw.clipMiss

RECURSIVE Surviving(_, _)
\* the paths of the list that open, in the order of the list
Surviving(call, filePaths) ==
    IF filePaths = <<>> THEN <<>>
    ELSE (IF Opens(call, Head(filePaths)) THEN <<Head(filePaths)>> ELSE <<>>)
         \o Surviving(call, Tail(filePaths))

\* the files a stack's entries were read from, in the stack's order
Sources(ret) == [i \in DOMAIN ret.entries |-> ret.entries[i].src]

\* C1: a load of n >= 1 files of which k fail to open (those that open being of
\* one shape) returns a stack of exactly the n-k files that open, in the order
\* of the list, and raises nothing; this includes k = n.
C1_Original ==
    (/\ lcall.op = "load"
     /\ lcall.filePaths # <<>>
     /\ \A p, q \in Ids(Surviving(lcall, lcall.filePaths)) :
            lcall.fs0[p].shape = lcall.fs0[q].shape)
    => /\ lret.kind = "stack"
       /\ Sources(lret) = Surviving(lcall, lcall.filePaths)

\* C2: merge of arrays that are not mergable raises and returns no stack; merge
\* returns a stack only when mergable(arrays) is true.
C2_Original ==
    lcall.op = "merge" =>
        /\ lret.kind = "stack" => mergable(lcall.data_arrays)
        /\ ~mergable(lcall.data_arrays) => lret.kind = "raise"

\* the position of a path in a list of distinct paths
PositionOf(filePaths, p) == CHOOSE i \in DOMAIN filePaths : filePaths[i] = p

\* a load or load1 that gave arrays back
LoaderReturned ==
    lcall.op \in {"load", "load1"} /\ lret.kind \in {"stack", "array"}

\* C12: what a loader returns for n paths is in the order of the list; with an
\* index of n timestamps every entry carries, on the time axis, the timestamp
\* given for its own file; without an index the time axis counts the entries.
C12_Original ==
    LoaderReturned =>
        /\ Sources(lret) = Surviving(lcall, lcall.filePaths)
        /\ IF lcall.kw.index.given
           THEN /\ Len(lret.time) = Len(lret.entries)
                /\ \A i \in DOMAIN lret.entries :
                      lret.time[i] = lcall.kw.index.v[PositionOf(lcall.filePaths, lret.entries[i].src)]
           ELSE lret.time \in {<<>>, Range(Len(lret.entries))}

\* C13: a stack that load or load1 returns never holds two entries whose files
\* had different (height, width) when they were opened: such a list of files
\* ends in an error.
C13_Original ==
    (LoaderReturned /\ lret.kind = "stack") =>
        \A i, j \in DOMAIN lret.entries :
            lcall.fs0[lret.entries[i].src].shape = lcall.fs0[lret.entries[j].src].shape

\* (height, width) of an array
HeightWidth(arr) == <<arr.shape[Len(arr.shape) - 1], arr.shape[Len(arr.shape)]>>

\* C14 as claimed: mergable answers true exactly when all the arrays have one
\* (height, width), and leaves the arrays and the files as they were.
C14_Original ==
    lcall.op = "mergable" =>
        /\ lret.kind = "bool"
        /\ lret.padded = (\A i, j \in DOMAIN lcall.data_arrays :
                            HeightWidth(lcall.data_arrays[i]) = HeightWidth(lcall.data_arrays[j]))
        /\ fs = lcall.fs0

\* C14 as amended: mergable answers true exactly when all the arrays have one
\* shape, the band count included, and leaves the arrays and the files as they were.
C14_Mergable ==
    lcall.op = "mergable" =>
        /\ lret.kind = "bool"
        /\ lret.padded = (\A i, j \in DOMAIN lcall.data_arrays :
                            lcall.data_arrays[i].shape = lcall.data_arrays[j].shape)
        /\ fs = lcall.fs0

\* mergable has refused three arrays of one (height, width), of which only the
\* last differs from the first, in its number of bands
C14_Witness ==
    /\ lcall.op = "mergable" /\ Len(lcall.data_arrays) = 3 /\ ~lret.padded
    /\ lcall.data_arrays[1].shape = lcall.data_arrays[2].shape
    /\ lcall.data_arrays[1].shape # lcall.data_arrays[3].shape
    /\ HeightWidth(lcall.data_arrays[1]) = HeightWidth(lcall.data_arrays[3])

\* C24: XRio.open never removes a file whose raster was read: a file is removed
\* only when kill_zombies is set and the reading of that file failed; a failure
\* of subset or clip, or a mask of an unknown type, leaves the file in place;
\* without kill_zombies open leaves the file system as it was.
C24_Original ==
    lcall.op = "open" =>
        LET filename == lcall.filePaths[1]
        IN  /\ lcall.fs0[filename].kind = "raster" => fs = lcall.fs0
            /\ fs # lcall.fs0 =>
                  /\ lcall.kw.kill_zombies
                  /\ lcall.fs0[filename].kind = "corrupt"
                  /\ fs = [lcall.fs0 EXCEPT ![filename] = Missing]
            /\ ~lcall.kw.kill_zombies => fs = lcall.fs0

\* C27: load and load1 are equivalent: for every list of files, opened without a
\* mask, whichever of them fail to open, both return a stack, with the same
\* entries in the same order, and neither raises.
C27_Original ==
    (lcall.op \in {"load", "load1"} /\ lcall.kw.mask = "none") =>
        LET byLoad == load(lcall.fs0, lcall.filePaths, lcall.kw).ret
            byLoad1 == load1(lcall.fs0, lcall.filePaths, lcall.kw).ret
        IN  /\ lret = (IF lcall.op = "load" THEN byLoad ELSE byLoad1)
            /\ byLoad.kind = "stack" /\ byLoad1.kind = "stack"
            /\ byLoad.entries = byLoad1.entries

(***************************************************************************)
(*                       Properties of GDALGrid                            *)
(***************************************************************************)

\* a round trip that started from a pixel inside the raster has returned
InBoundsRoundTrip ==
    /\ gcall.op = "roundtrip"
    /\ gcall.a[1] \in 0..(grid.x_size - 1)
    /\ gcall.a[2] \in 0..(grid.y_size - 1)

\* C3 as claimed: on every grid with non-zero pixel width and height,
\* coord_to_pixel(pixel_to_coord(col,row)) returns exactly (col,row), without
\* error, for every pixel inside the raster.
C3_Original ==
    (InBoundsRoundTrip /\ grid.a # 0 /\ grid.e # 0) =>
        (gret.kind = "pixel" /\ gret.v = gcall.a)

\* C3 as amended: the same on every grid whose affine transform is invertible
\* (a*e - b*d # 0; for a grid without rotation that is a non-zero pixel width and height).
C3_RoundTrip ==
    (InBoundsRoundTrip /\ grid.a * grid.e # grid.b * grid.d) =>
        (gret.kind = "pixel" /\ gret.v = gcall.a)

\* a round trip on a rotated, invertible grid from a pixel that is not the first
C3_Witness ==
    /\ InBoundsRoundTrip /\ gret.kind = "pixel"
    /\ grid.b # 0 /\ grid.d # 0
    /\ gcall.a[1] > 0 /\ gcall.a[2] > 0

\* C15: on a grid whose transform can be inverted, coord2pixel either raises
\* the out-of-bounds error or returns a column in 0..width-1 and a row in
\* 0..height-1; a coordinate on the far edge of the grid is out of bounds.
C15_Original ==
    (gcall.op = "coord2pixel" /\ Determinant(grid) # 0) =>
        \/ gret.kind = "raise" /\ gret.err = "IndexError"
        \/ /\ gret.kind = "pixel"
           /\ gret.v[1] \in 0..(grid.x_size - 1)
           /\ gret.v[2] \in 0..(grid.y_size - 1)

\* twice the world coordinate of the centre of a pixel, by the GeoTransform
Centre2(g, col, row) ==
    <<2 * g.c + (2 * col + 1) * g.a + (2 * row + 1) * g.b,
      2 * g.f + (2 * col + 1) * g.d + (2 * row + 1) * g.e>>

\* C16: pixel2coord raises the out-of-bounds error whenever col >= width or
\* row >= height, and otherwise returns the coordinate of the pixel's centre,
\* the affine transform of (col + 0.5, row + 0.5).
C16_Pixel2Coord ==
    gcall.op = "pixel2coord" =>
        IF gcall.a[1] >= grid.x_size \/ gcall.a[2] >= grid.y_size
        THEN gret.kind = "raise" /\ gret.err = "IndexError"
        ELSE gret.kind = "coord" /\ gret.v = Centre2(grid, gcall.a[1], gcall.a[2])

\* pixel2coord has refused a row equal to the height, the column being inside
C16_Witness ==
    /\ gcall.op = "pixel2coord" /\ gret.kind = "raise"
    /\ gcall.a[1] \in 0..(grid.x_size - 1) /\ gcall.a[2] = grid.y_size

\* pixel2coord has returned the centre of the last pixel of a rotated grid
C16_WitnessCentre ==
    /\ gcall.op = "pixel2coord" /\ gret.kind = "coord"
    /\ gcall.a = <<grid.x_size - 1, grid.y_size - 1>> /\ grid.b # 0

\* the two corners of the grid the bounds are taken from, (0, height) and
\* (width, 0), in the projection asked for
BoundsCorners(g, proj) ==
    IF proj = NoProjection THEN {Affine2(g, 0, g.y_size), Affine2(g, g.x_size, 0)}
    ELSE {TransformPoint(proj, Affine2(g, 0, g.y_size)), TransformPoint(proj, Affine2(g, g.x_size, 0))}

\* C17: GDALGrid.bounds and XGeo.bounds return (xmin, xmax, ymin, ymax); without
\* a projection these are x and y of the affine transform of (0, height) and
\* then of (width, 0); with a projection they are the least and greatest x and
\* y of the two reprojected corners, so that xmin <= xmax and ymin <= ymax.
C17_Original ==
    (gcall.op \in {"bounds", "xgeo_bounds"} /\ Determinant(grid) # 0) =>
        /\ gret.kind = "bounds"
        /\ IF gcall.a[1] = NoProjection
           THEN gret.v = <<Affine2(grid, 0, grid.y_size)[1], Affine2(grid, grid.x_size, 0)[1],
                           Affine2(grid, 0, grid.y_size)[2], Affine2(grid, grid.x_size, 0)[2]>>
           ELSE LET pts == BoundsCorners(grid, gcall.a[1])
                IN  /\ gret.v = <<SetMin({pt[1] : pt \in pts}), SetMax({pt[1] : pt \in pts}),
                                  SetMin({pt[2] : pt \in pts}), SetMax({pt[2] : pt \in pts})>>
                    /\ gret.v[1] <= gret.v[2] /\ gret.v[3] <= gret.v[4]

\* C29: on a north-up grid with unrotated pixels, an index pixel2coord accepts
\* is not negative, and the coordinate returned lies inside the bounds of the
\* grid: xmin <= x <= xmax and ymin <= y <= ymax.
C29_Original ==
    (/\ gcall.op = "pixel2coord" /\ gret.kind = "coord"
     /\ grid.b = 0 /\ grid.d = 0 /\ grid.a > 0 /\ grid.e < 0) =>
        LET bnds == bounds(grid, NoProjection).v
        IN  /\ gcall.a[1] >= 0 /\ gcall.a[2] >= 0
            /\ bnds[1] <= gret.v[1] /\ gret.v[1] <= bnds[2]
            /\ bnds[3] <= gret.v[2] /\ gret.v[2] <= bnds[4]

\* whether a pair of bounds runs the way a coordinate does: descending when the
\* first coordinate is greater than the last, ascending otherwise
Follows(pair, coords) ==
    IF coords[1] > coords[Len(coords)] THEN pair[1] >= pair[2] ELSE pair[1] <= pair[2]

\* the two orders in which a caller may give a pair of bounds
BothOrders(pair) == {pair, <<pair[2], pair[1]>>}

\* the same sub-window comes back whichever way round the caller gives the bounds
OrderIndependent ==
    \A xbounds \in BothOrders(gcall.a[1]), ybounds \in BothOrders(gcall.a[2]) :
        subset(grid, xbounds, ybounds) = gret

\* C22: subset puts each pair of bounds in the order of the grid's own
\* coordinate, the x bounds by the x coordinates and the y bounds by the y
\* coordinates (descending when the first is greater than the last, ascending
\* otherwise), and selects the same sub-window for any order of the bounds given.
C22_Original ==
    gcall.op = "subset" =>
        /\ Follows(gret.v[1], XCoords(grid))
        /\ Follows(gret.v[2], YCoords(grid))
        /\ OrderIndependent

(***************************************************************************)
(*                   Properties of LakeMaskProcessor                       *)
(***************************************************************************)

\* C10: a batch in which the processing of some lake raised ends without raising,
\* with every unit run to completion, a report that names the lake and carries
\* the error for every failed unit, and the results of the successful units
\* together with the recorded failures as what the batch gives back.
C10_Original ==
    (/\ batch.op \in {"returned", "raised"}
     /\ DOMAIN unit # {}
     /\ \E lake \in DOMAIN unit : unit[lake] # "ok")
    => /\ batch.op = "returned"
       /\ \A lake \in DOMAIN unit : unit[lake] \in {"ok", "reported"}
       /\ \A lake \in DOMAIN unit :
             unit[lake] = "reported" => \E i \in DOMAIN reports[lake] : reports[lake][i].lake = lake
       /\ batch.ret.kind = "results"
       /\ batch.ret.results = {l \in DOMAIN unit : unit[l] = "ok"}
       /\ batch.ret.failures = {l \in DOMAIN unit : unit[l] = "reported"}

RECURSIVE YearsOf(_, _, _)
\* the years from y on whose mask file of the lake exists, ascending
YearsOf(exists, lake, y) ==
    IF y > MaxYears THEN <<>>
    ELSE (IF <<lake, y>> \in exists THEN <<y>> ELSE <<>>) \o YearsOf(exists, lake, y + 1)

\* C30: process_lakes never fails looking a lake up in lake_masks; it submits one
\* work unit for each lake whose mask file of the first year exists and for no
\* other lake, whatever files of later years exist; the years of a unit's files
\* start with the first year, ascend, and are years whose file exists.
C30_WorkUnits ==
    /\ batch.op = "raised" => batch.err # "KeyError"
    /\ batch.op \in {"map", "returned"} =>
          /\ DOMAIN unit = {lake \in LakeIds : <<lake, 1>> \in lakes.exists}
          /\ DOMAIN lakes.lake_masks = DOMAIN unit
          /\ \A lake \in DOMAIN unit :
                LET years == lakes.lake_masks[lake]
                IN  /\ years[1] = 1
                    /\ \A i, j \in DOMAIN years : i < j => years[i] < years[j]
                    /\ \A i \in DOMAIN years : <<lake, years[i]>> \in lakes.exists
                    /\ years = YearsOf(lakes.exists, lake, 1)

\* the units are in the pool for a batch in which one lake has files of two
\* years and another has a file of a later year only
C30_Witness ==
    /\ batch.op = "map"
    /\ \E lake \in DOMAIN unit : Len(lakes.lake_masks[lake]) >= 2
    /\ \E lake \in LakeIds, year \in Years :
          lake \notin DOMAIN unit /\ <<lake, year>> \in lakes.exists

(***************************************************************************)
(*                      Properties of the two pools                        *)
(***************************************************************************)

\* C11: in every interleaving of the units of one batch, of lakes or of tiles,
\* no path is opened for writing by two different units: whatever two units
\* wrote, they wrote to different paths.
C11_DisjointDestinations ==
    \A a \in wrote : \A b \in wrote : a.unit # b.unit => a.path # b.path

\* two pool processes are downloading at the same moment, each for its own unit
C11_Witness ==
    \E v \in worker : \E w \in worker :
        v.unit # w.unit /\ v.phase = "writing" /\ w.phase = "writing"

(***************************************************************************)
(*                   Properties of the raster datasets                     *)
(***************************************************************************)

\* a call that gave a dataset back
GaveDataset == rret.kind \in {"Dataset", "GDALGrid"}

\* C18: after resample_grid and after to_projection (gdal_reproject), every
\* band of the destination whose source band declares no nodata value has the
\* nodata value -9999.
C18_Original ==
    (rcall.op \in {"resample_grid", "to_projection"} /\ GaveDataset) =>
        \A i \in DOMAIN raster.src.bands :
            ~raster.src.bands[i].nodata.declared =>
                rret.ds.bands[i].nodata = Nodata(NoDataSentinel)

\* the geometry, projection and band count C19 asks of a resampled grid
MatchesReference(ds) ==
    /\ ds.g = rcall.raster0.match.g
    /\ ds.proj = rcall.raster0.match.proj
    /\ Len(ds.bands) = Len(rcall.raster0.src.bands)

\* C19 as claimed: every call of resample_grid returns a grid with the
\* GeoTransform, width, height and projection of the reference and the band
\* count of the source, and leaves the source and the reference as they were.
C19_Original ==
    rcall.op = "resample_grid" =>
        /\ GaveDataset /\ MatchesReference(rret.ds)
        /\ raster.src = rcall.raster0.src /\ raster.match = rcall.raster0.match

\* C19 as amended: resample_grid without to_file returns such a grid; with
\* to_file it writes such a grid to the file and returns None; in both cases
\* the source and the reference are left as they were.
C19_ResampleGrid ==
    rcall.op = "resample_grid" =>
        /\ IF rcall.to_file
           THEN rret.kind = "None" /\ \E f \in raster.files : MatchesReference(f)
           ELSE GaveDataset /\ MatchesReference(rret.ds)
        /\ raster.src = rcall.raster0.src /\ raster.match = rcall.raster0.match

\* resample_grid has returned a grid for a two-band source whose geometry and
\* projection are not those of the reference
C19_Witness ==
    /\ rcall.op = "resample_grid" /\ GaveDataset
    /\ Len(raster.src.bands) = 2
    /\ raster.src.g # raster.match.g /\ raster.src.g.x_size # raster.match.g.x_size
    /\ raster.src.proj # raster.match.proj

\* a grid has been reprojected into its own coordinate system
OwnCRS == rcall.op = "to_projection" /\ rcall.dst_proj = raster.src.proj

\* the result has the width, the height and the bounds of the source
SizeAndBoundsKept ==
    /\ GaveDataset
    /\ rret.ds.g.x_size = raster.src.g.x_size /\ rret.ds.g.y_size = raster.src.g.y_size
    /\ bounds_own(rret.ds.g) = bounds_own(raster.src.g)

C28_Original ==
    (rcall.op = "resample_grid" /\ GaveDataset) =>
        \A i \in DOMAIN raster.src.bands :
            IF raster.src.bands[i].nodata.declared
            THEN rret.ds.bands[i].nodata = raster.src.bands[i].nodata
            ELSE rret.ds.bands[i].nodata = Nodata(NoDataSentinel)

\* C20: reading a band that declares a nodata value, masked, gives the pixel
\* values of the band unchanged and a mask that is set exactly at the pixels
\* equal to the nodata value; with a negative band index that holds of all the
\* bands of the dataset.
C20_Original ==
    (/\ rcall.op \in {"np_array", "loadRasterFile"} /\ rcall.masked
     /\ rcall.band < 0 \/ rcall.band \in DOMAIN raster.src.bands
     /\ \A i \in DOMAIN raster.src.bands :
            (rcall.band < 0 \/ rcall.band = i) => raster.src.bands[i].nodata.declared)
    => LET sel == IF rcall.band < 0 THEN [i \in DOMAIN raster.src.bands |-> i] ELSE <<rcall.band>>
       IN  /\ rret.kind \in {"ndarray", "DataArray"}
           /\ rret.data = [k \in DOMAIN sel |-> raster.src.bands[sel[k]].data]
           /\ rret.nan = {}
           /\ rret.masked
           /\ rret.mask = [k \in DOMAIN sel |->
                             [p \in DOMAIN raster.src.bands[sel[k]].data |->
                                 raster.src.bands[sel[k]].data[p] = raster.src.bands[sel[k]].nodata.value]]

====
